---- MODULE Spec2Model ----
(***************************************************************************)
(* Model of bot.py: the slash-command handlers of the account bot, the     *)
(* account pool they hand out from and the Roblox version cache.           *)
(*                                                                         *)
(* discord.py runs every handler as a coroutine on one event loop, so a    *)
(* handler runs without interruption from one `await` to the next.  Each   *)
(* action below is one such uninterrupted stretch of a handler.            *)
(*                                                                         *)
(* helpers/account_manager.py and helpers/roblox_version.py are imported   *)
(* by bot.py (lines 72-73) but are not part of the source tree; the        *)
(* operators add_account, get_account, stock, fetch and force_refresh are  *)
(* written from the design document's description of them.                 *)
(***************************************************************************)
EXTENDS Integers, Sequences, FiniteSets, TLC

\* ---------------------------------------------------------------- bounds
\* Number of distinct account strings an administrator submits.
MaxAccounts == 2
\* Number of clock advances allowed in the account-pool behaviours.
MaxPoolTicks == 3
\* Number of clock advances allowed in the version-cache behaviours.
MaxVersionTicks == 5
\* Number of network calls to the version source that are followed.
MaxNetCalls == 2
\* Number of iterations of the status loop that are followed.
MaxStatusLoops == 5

\* ------------------------------------------------------------- constants
\* config.get("getAccCooldown", 300)
GETACC_COOLDOWN == 300
\* REFRESH_COOLDOWN = 60
REFRESH_COOLDOWN == 60
\* Time-to-live of the version snapshot, in seconds.
CACHE_TTL == 120

\* Discord users issuing commands; guild_permissions.administrator holds
\* for the members of Admins.
Users == {"u1", "u2", "u3"}
Admins == {"u1", "u2"}
\* Variant: the privilege check lets everybody through.
IsAdministrator_any(u) == u \in Users

IsAdministrator(u) == u \in Admins

\* Users whose /getacc handlers are followed in the pool behaviours.
Requesters == {"u1", "u3"}
\* Users whose /version commands are followed in the version behaviours.
Viewers == {"u3"}

\* time.time() at start-up is far larger than every window, so that a
\* missing dictionary entry (default 0) never counts as recent.
StartTime == GETACC_COOLDOWN + REFRESH_COOLDOWN + CACHE_TTL
\* Granularity of the clock in the two families of behaviours.
PoolStep == GETACC_COOLDOWN \div 2
VersionStep == REFRESH_COOLDOWN \div 2

\* Account strings are the numbers 1..MaxAccounts; NoAccount is Python's
\* None, and Malformed a string add_account rejects.
Accounts == 1..MaxAccounts
NoAccount == 0
Malformed == 0 - 1

\* Versions the remote source may report; NoVersion is a missing "version".
Versions == {1, 2}
NoVersion == 0
\* The "date" of a report: absent (NoDate) or present.
Dates == {0, 1}
NoDate == 0
\* The reports followed: an older version without a date, a newer one with.
Reports == {<<1, 0>>, <<2, 1>>}

VARIABLES
    now,                \* time.time()
    store,              \* the accounts file: the persisted pool
    accounts,           \* the in-memory list last loaded / mutated / saved
    cooldowns,          \* AccountManager: requester -> time of last checkout
    next_account,       \* the next fresh account string an admin will add
    pc,                 \* per user: position of the /getacc handler
    acc,                \* per user: `acc` local of the /getacc handler
    dm_sent,            \* per user: line 157 completed in the running handler
    delivered,          \* DMs that arrived: set of <<user, account>>
    refresh_cooldowns,  \* refresh_cooldowns dict (line 198)
    snapshot,           \* RobloxVersion: [version, date, fetchedAt]
    netLog,             \* network calls made to the version source
    refreshing,         \* users whose /refreshversion awaits its embed's send
    current_loop,       \* update_status.current_loop
    presence,           \* the activity text set by bot.change_presence
    changing,           \* update_status awaits its change_presence
    last                \* the command handled last and its response

vars == <<now, store, accounts, cooldowns, next_account, pc, acc, dm_sent,
          delivered, refresh_cooldowns, snapshot, netLog, refreshing, current_loop,
          presence, changing, last>>

poolVars == <<store, accounts, cooldowns, next_account, pc, acc, dm_sent, delivered>>
versionVars == <<refresh_cooldowns, snapshot, netLog, refreshing>>
statusVars == <<current_loop, presence, changing>>

\* dict.get(key, default)
Get(d, k, default) == IF k \in DOMAIN d THEN d[k] ELSE default
\* d[k] = v
Put(d, k, v) == [x \in DOMAIN d \cup {k} |-> IF x = k THEN v ELSE d[x]]

Range(s) == {s[i] : i \in DOMAIN s}

\* The response of the handler that ran last.  flip alternates so that two
\* identical commands in a row are still two steps.
Response(cmd, u, text, n, ver, date) ==
    [cmd |-> cmd, user |-> u, flip |-> 1 - last.flip, text |-> text,
     n |-> n, ver |-> ver, date |-> date]

\* ------------------------------------------------------- account manager
\* Variant: the manager is constructed with the refresh window.
getacc_cooldown_wrong == REFRESH_COOLDOWN

\* AccountManager(getacc_cooldown=GETACC_COOLDOWN, ...)
getacc_cooldown == GETACC_COOLDOWN

\* account_manager.load_accounts(): the list read from the accounts file.
load_accounts(file) == file

\* account_manager.save_accounts(list): the accounts file after the write.
save_accounts(list) == list

\* account_manager.stock(): the length of the pool as persisted.
stock(file) == Len(load_accounts(file))

\* account_manager.add_account(raw): reject a malformed string without
\* touching the file, otherwise append to the pool and persist.
add_account(raw, file) ==
    IF raw = Malformed
    THEN [ok |-> FALSE, accounts |-> load_accounts(file), store |-> file]
    ELSE LET list == Append(load_accounts(file), raw)
         IN  [ok |-> TRUE, accounts |-> list, store |-> save_accounts(list)]

\* Variant: the front account is returned but the shortened pool is not
\* written back.
get_account_keep(uid, file, cds, t) ==
    IF uid \in DOMAIN cds /\ t - cds[uid] < getacc_cooldown
    THEN [acc |-> NoAccount, msg |-> "cooldown", accounts |-> file,
          store |-> file, cooldowns |-> cds]
    ELSE IF file = << >>
    THEN [acc |-> NoAccount, msg |-> "no stock", accounts |-> file,
          store |-> file, cooldowns |-> cds]
    ELSE [acc |-> Head(file), msg |-> "ok", accounts |-> file,
          store |-> file, cooldowns |-> Put(cds, uid, t)]

\* Variant: the requester's entry is stamped before the pool is looked at.
get_account_stamp_first(uid, file, cds, t) ==
    IF uid \in DOMAIN cds /\ t - cds[uid] < getacc_cooldown
    THEN [acc |-> NoAccount, msg |-> "cooldown", accounts |-> file,
          store |-> file, cooldowns |-> cds]
    ELSE IF file = << >>
    THEN [acc |-> NoAccount, msg |-> "no stock", accounts |-> file,
          store |-> file, cooldowns |-> Put(cds, uid, t)]
    ELSE [acc |-> Head(file), msg |-> "ok", accounts |-> Tail(file),
          store |-> Tail(file), cooldowns |-> Put(cds, uid, t)]

\* account_manager.get_account(uid): (1) refuse inside the cooldown window,
\* (2) refuse on an empty pool, (3) pop the front, persist, stamp the
\* requester's cooldown entry and return the popped account.
get_account(uid, file, cds, t) ==
    IF uid \in DOMAIN cds /\ t - cds[uid] < getacc_cooldown
    THEN [acc |-> NoAccount, msg |-> "cooldown", accounts |-> load_accounts(file),
          store |-> file, cooldowns |-> cds]
    ELSE IF load_accounts(file) = << >>
    THEN [acc |-> NoAccount, msg |-> "no stock", accounts |-> load_accounts(file),
          store |-> file, cooldowns |-> cds]
    ELSE LET list == load_accounts(file)
         IN  [acc |-> Head(list), msg |-> "ok", accounts |-> Tail(list),
              store |-> save_accounts(Tail(list)), cooldowns |-> Put(cds, uid, t)]

\* Variant: accounts.append(acc) in place of accounts.insert(0, acc).
restore_account_append(a, file) ==
    [accounts |-> Append(file, a), store |-> Append(file, a)]

\* Variant: the list written back is built without reading the file again.
restore_account_overwrite(a, file) ==
    [accounts |-> <<a>>, store |-> <<a>>]

\* Variant: the list is changed but save_accounts is not called.
restore_account_unsaved(a, file) ==
    [accounts |-> <<a>> \o file, store |-> file]

\* The except-branch of get_account_cmd:
\*     accounts = account_manager.load_accounts()
\*     accounts.insert(0, acc)
\*     account_manager.save_accounts(accounts)
restore_account(a, file) ==
    LET list == <<a>> \o load_accounts(file)
    IN  [accounts |-> list, store |-> save_accounts(list)]

\* ------------------------------------------------------ command handlers
\* /addacc: administrators only; the account string is a fresh one or a
\* malformed one.
add_account_cmd(u, raw) ==
    /\ raw \in {next_account, Malformed}
    /\ raw = next_account => next_account <= MaxAccounts
    /\ IF ~IsAdministrator(u)
       THEN /\ last' = Response("addacc", u, "Admin only", 0, NoVersion, NoDate)
            /\ UNCHANGED <<store, accounts, next_account>>
       ELSE LET r == add_account(raw, store)
            IN  /\ store' = r.store
                /\ accounts' = r.accounts
                /\ next_account' = IF r.ok THEN next_account + 1 ELSE next_account
                /\ last' = Response("addacc", u, IF r.ok THEN "added" ELSE "invalid",
                                    stock(r.store), NoVersion, NoDate)
    /\ UNCHANGED <<now, cooldowns, pc, acc, dm_sent, delivered, versionVars, statusVars>>

\* /getacc up to its first await: the call of account_manager.get_account.
\* With an account the handler goes on to DM it; without one it only
\* answers with the manager's message.  One /getacc handler per user is
\* followed at a time.
get_account_cmd(u) ==
    /\ pc[u] = "idle"
    /\ LET r == get_account(u, store, cooldowns, now)
       IN  /\ store' = r.store
           /\ accounts' = r.accounts
           /\ cooldowns' = r.cooldowns
           /\ acc' = [acc EXCEPT ![u] = r.acc]
           /\ pc' = [pc EXCEPT ![u] = IF r.acc # NoAccount THEN "dm" ELSE "idle"]
           /\ last' = Response("getacc", u, r.msg, r.acc, NoVersion, NoDate)
    /\ dm_sent' = [dm_sent EXCEPT ![u] = FALSE]
    /\ UNCHANGED <<now, next_account, delivered, versionVars, statusVars>>

\* The except-branch up to its first await: put the account back.
Restore(u) ==
    LET r == restore_account(acc[u], store)
    IN  /\ store' = r.store
        /\ accounts' = r.accounts
        /\ pc' = [pc EXCEPT ![u] = "notify"]

\* await interaction.user.send(...) returns: the DM arrived.
dm_ok(u) ==
    /\ pc[u] = "dm"
    /\ delivered' = delivered \cup {<<u, acc[u]>>}
    /\ dm_sent' = [dm_sent EXCEPT ![u] = TRUE]
    /\ pc' = [pc EXCEPT ![u] = "respond"]
    /\ UNCHANGED <<now, store, accounts, cooldowns, next_account, acc, versionVars, statusVars, last>>

\* Variant: the except-branch also gives the requester its cooldown back.
dm_fail_refund(u) ==
    /\ pc[u] = "dm"
    /\ Restore(u)
    /\ cooldowns' = [x \in DOMAIN cooldowns \ {u} |-> cooldowns[x]]
    /\ UNCHANGED <<now, next_account, acc, dm_sent, delivered, versionVars, statusVars, last>>

\* await interaction.user.send(...) raises: the except-branch runs.
dm_fail(u) ==
    /\ pc[u] = "dm"
    /\ Restore(u)
    /\ UNCHANGED <<now, cooldowns, next_account, acc, dm_sent, delivered, versionVars, statusVars, last>>

\* await interaction.response.send_message("Sent via DM!") returns.
respond_ok(u) ==
    /\ pc[u] = "respond"
    /\ pc' = [pc EXCEPT ![u] = "idle"]
    /\ acc' = [acc EXCEPT ![u] = NoAccount]
    /\ UNCHANGED <<now, store, accounts, cooldowns, next_account, dm_sent, delivered,
                   versionVars, statusVars, last>>

\* await interaction.response.send_message("Sent via DM!") raises: the same
\* except-branch runs, although the DM has arrived.
respond_fail(u) ==
    /\ pc[u] = "respond"
    /\ Restore(u)
    /\ UNCHANGED <<now, cooldowns, next_account, acc, dm_sent, delivered, versionVars, statusVars, last>>

\* The rest of the except-branch: "Enable DMs!", the log line, raise e.
notify(u) ==
    /\ pc[u] = "notify"
    /\ pc' = [pc EXCEPT ![u] = "idle"]
    /\ acc' = [acc EXCEPT ![u] = NoAccount]
    /\ UNCHANGED <<now, store, accounts, cooldowns, next_account, dm_sent, delivered,
                   versionVars, statusVars, last>>

\* /addacc of an administrator when the write of the accounts file fails:
\* add_account reports the failure and the file is as it was.
add_account_cmd_write_failed(u, raw) ==
    /\ IsAdministrator(u)
    /\ raw = next_account
    /\ next_account <= MaxAccounts
    /\ accounts' = load_accounts(store)
    /\ last' = Response("addacc", u, "write failed", stock(store), NoVersion, NoDate)
    /\ UNCHANGED <<now, store, cooldowns, next_account, pc, acc, dm_sent, delivered,
                   versionVars, statusVars>>

\* /getacc when get_account is about to pop and the write of the shortened
\* file fails: no account is returned, file and cooldown entry are as they
\* were, and the handler answers with the manager's message (line 167).
get_account_cmd_write_failed(u) ==
    /\ pc[u] = "idle"
    /\ get_account(u, store, cooldowns, now).acc # NoAccount
    /\ accounts' = load_accounts(store)
    /\ last' = Response("getacc", u, "write failed", NoAccount, NoVersion, NoDate)
    /\ dm_sent' = [dm_sent EXCEPT ![u] = FALSE]
    /\ UNCHANGED <<now, store, cooldowns, next_account, pc, acc, delivered,
                   versionVars, statusVars>>

\* The except-branch when save_accounts (line 162) fails.  The file keeps
\* the shortened pool.  If save_accounts raised, the exception leaves the
\* except-branch and the handler ends there; if it returned a failure, the
\* handler does not look at it and goes on to line 163.
restore_write_failed(u, raised) ==
    /\ pc[u] \in {"dm", "respond"}
    /\ accounts' = load_accounts(store)
    /\ pc' = [pc EXCEPT ![u] = IF raised THEN "idle" ELSE "notify"]
    /\ acc' = [acc EXCEPT ![u] = IF raised THEN NoAccount ELSE acc[u]]
    /\ UNCHANGED <<now, store, cooldowns, next_account, dm_sent, delivered,
                   versionVars, statusVars, last>>

\* /stock
stock_cmd(u) ==
    /\ last' = Response("stock", u, IF stock(store) > 0 THEN "left" ELSE "None left",
                        stock(store), NoVersion, NoDate)
    /\ UNCHANGED <<now, poolVars, versionVars, statusVars>>

\* Time passes between two steps of the pool behaviours.
PoolTick ==
    /\ now + PoolStep <= StartTime + MaxPoolTicks * PoolStep
    /\ now' = now + PoolStep
    /\ UNCHANGED <<poolVars, versionVars, statusVars, last>>

\* --------------------------------------------------------- version cache
\* What one call of the remote source yields: a failure (error, timeout) or
\* a report with a version and possibly a date.
NetOutcomes ==
    {[ok |-> FALSE, version |-> NoVersion, date |-> NoDate]} \cup
    {[ok |-> TRUE, version |-> r[1], date |-> r[2]] : r \in Reports}

\* No snapshot has ever been fetched.
IsEmpty(snap) == snap.version = NoVersion
\* A snapshot exists and is younger than the TTL.
IsFresh(snap, t) == ~IsEmpty(snap) /\ t - snap.fetchedAt < CACHE_TTL
\* A snapshot exists and is at least as old as the TTL.
IsStale(snap, t) == ~IsEmpty(snap) /\ t - snap.fetchedAt >= CACHE_TTL

\* roblox_version.fetch(): a fresh snapshot is returned as it is; otherwise
\* one network call is made, and its report replaces the snapshot wholesale
\* when it succeeds and leaves it untouched when it fails.
fetch(snap, t, net) ==
    IF IsFresh(snap, t)
    THEN [snapshot |-> snap, called |-> FALSE]
    ELSE [snapshot |-> IF net.ok
                       THEN [version |-> net.version, date |-> net.date, fetchedAt |-> t]
                       ELSE snap,
          called |-> TRUE]

\* roblox_version.force_refresh(): the network call is made whatever the age
\* of the snapshot.
force_refresh(snap, t, net) ==
    [snapshot |-> IF net.ok
                  THEN [version |-> net.version, date |-> net.date, fetchedAt |-> t]
                  ELSE snap,
     called |-> TRUE]

\* netLog after a handler of user u made (or did not make) a network call.
Logged(called, u, kind, net) ==
    IF called
    THEN Append(netLog, [by |-> u, at |-> now, kind |-> kind, ok |-> net.ok])
    ELSE netLog

\* account_manager.status_text() and roblox_version.status_text()
account_status_text(file) == [text |-> "stock", n |-> stock(file)]
version_status_text(snap) == [text |-> "version", n |-> snap.version]

\* status_messages[i]()
status_messages(i, file, snap) ==
    CASE i = 0 -> account_status_text(file)
      [] i = 1 -> [text |-> "/getacc for free accounts", n |-> 0]
      [] i = 2 -> [text |-> "/stock to check balance", n |-> 0]
      [] i = 3 -> version_status_text(snap)

\* len(status_messages)
NumStatusMessages == 4

\* Variant: `if date:` in place of `if ver:`.
version_reply_by_date(u, data) ==
    IF data.date # NoDate
    THEN Response("version", u, "embed", 0, data.version, data.date)
    ELSE Response("version", u, "unavailable", 0, NoVersion, NoDate)

\* version_cmd, lines 186-195: `if ver:` sends the embed with the version
\* and the date, else the "Could not fetch Roblox version." message.
version_reply(u, data) ==
    IF data.version # NoVersion
    THEN Response("version", u, "embed", 0, data.version, data.date)
    ELSE Response("version", u, "unavailable", 0, NoVersion, NoDate)

\* Variant: `if date:` in place of `if ver:`.
refresh_reply_by_date(u, data) ==
    IF data.date # NoDate
    THEN Response("refreshversion", u, "embed", 0, data.version, data.date)
    ELSE Response("refreshversion", u, "unavailable", 0, NoVersion, NoDate)

\* refresh_version, lines 215-231: the same choice for the refreshed data.
refresh_reply(u, data) ==
    IF data.version # NoVersion
    THEN Response("refreshversion", u, "embed", 0, data.version, data.date)
    ELSE Response("refreshversion", u, "unavailable", 0, NoVersion, NoDate)

\* Variant: the handler calls force_refresh() in place of fetch().
version_data_forced(snap, t, net) == force_refresh(snap, t, net)

\* version_cmd, line 185: data = roblox_version.fetch()
version_data(snap, t, net) == fetch(snap, t, net)

\* Variant: the entry is written only after a refresh that succeeded.
stamp_on_success(cds, uid, t, ok) == IF ok THEN Put(cds, uid, t) ELSE cds

\* refresh_version, line 213: refresh_cooldowns[uid] = now, before the
\* refresh is attempted and whatever its outcome (ok) will be.
stamp_refresh(cds, uid, t, ok) == Put(cds, uid, t)

\* /version
version_cmd(u, net) ==
    LET r == version_data(snapshot, now, net)
    IN  /\ r.called => Len(netLog) < MaxNetCalls
        /\ ~r.called => net = CHOOSE o \in NetOutcomes : ~o.ok
        /\ snapshot' = r.snapshot
        /\ netLog' = Logged(r.called, u, "fetch", net)
        /\ last' = version_reply(u, r.snapshot)
        /\ UNCHANGED <<now, poolVars, refresh_cooldowns, refreshing, statusVars>>

\* Variant: the handler calls fetch() in place of force_refresh().
refresh_data_cached(snap, t, net) == fetch(snap, t, net)

\* refresh_version, line 214: data = roblox_version.force_refresh()
refresh_data(snap, t, net) == force_refresh(snap, t, net)

\* Variant: the handler looks the user up in the checkout cooldown map.
refresh_last_shared(u) == Get(cooldowns, u, 0)

\* refresh_version, line 208: last = refresh_cooldowns.get(uid, 0)
refresh_last(u) == Get(refresh_cooldowns, u, 0)

\* Variant: the entry is stamped before the window is checked, so a refused
\* request starts the window again.
refresh_refused_restamp(u, lastAt) ==
    /\ last' = Response("refreshversion", u, "cooldown",
                        REFRESH_COOLDOWN - (now - lastAt), NoVersion, NoDate)
    /\ refresh_cooldowns' = Put(refresh_cooldowns, u, now)
    /\ UNCHANGED <<now, poolVars, snapshot, netLog, refreshing, statusVars>>

\* refresh_version, lines 209-212: inside the window the handler answers
\* with the remaining wait and returns.
refresh_refused(u, lastAt) ==
    /\ last' = Response("refreshversion", u, "cooldown",
                        REFRESH_COOLDOWN - (now - lastAt), NoVersion, NoDate)
    /\ UNCHANGED <<now, poolVars, versionVars, statusVars>>

\* /refreshversion up to the await that sends its answer: the privilege
\* check, the cooldown check, the stamp and the refresh.  One permitted
\* /refreshversion handler per user is followed at a time.
refresh_version(u, net) ==
    IF ~IsAdministrator(u)
    THEN /\ net = CHOOSE o \in NetOutcomes : ~o.ok
         /\ last' = Response("refreshversion", u, "Admin only", 0, NoVersion, NoDate)
         /\ UNCHANGED <<now, poolVars, versionVars, statusVars>>
    ELSE LET lastAt == refresh_last(u)
         IN  IF now - lastAt < REFRESH_COOLDOWN
             THEN /\ net = CHOOSE o \in NetOutcomes : ~o.ok
                  /\ refresh_refused(u, lastAt)
             ELSE LET r == refresh_data(snapshot, now, net)
                  IN  /\ u \notin refreshing
                      /\ r.called => Len(netLog) < MaxNetCalls
                      /\ refresh_cooldowns' = stamp_refresh(refresh_cooldowns, u, now, net.ok)
                      /\ snapshot' = r.snapshot
                      /\ netLog' = Logged(r.called, u, "refresh", net)
                      /\ last' = refresh_reply(u, r.snapshot)
                      /\ refreshing' = IF r.snapshot.version # NoVersion
                                       THEN refreshing \cup {u}
                                       ELSE refreshing
                      /\ UNCHANGED <<now, poolVars, statusVars>>

\* Variant: the presence is set to the version text after every successful
\* refresh, whatever the status loop's counter.
refresh_presence_always(u, shown) ==
    /\ u \in refreshing
    /\ refreshing' = refreshing \ {u}
    /\ presence' = IF shown THEN version_status_text(snapshot) ELSE presence
    /\ UNCHANGED <<now, poolVars, refresh_cooldowns, snapshot, netLog, current_loop,
                   changing, last>>

\* refresh_version, lines 223-229, after the embed was sent: when the status
\* loop's counter selects the version provider the presence is set to the
\* version text at once; a failure of change_presence is caught and printed.
refresh_presence(u, shown) ==
    /\ u \in refreshing
    /\ refreshing' = refreshing \ {u}
    /\ IF current_loop % NumStatusMessages = 3
       THEN presence' = IF shown THEN version_status_text(snapshot) ELSE presence
       ELSE shown /\ presence' = presence
    /\ UNCHANGED <<now, poolVars, refresh_cooldowns, snapshot, netLog, current_loop,
                   changing, last>>

\* The send of the embed raises: the handler ends at line 222.
refresh_unsent(u) ==
    /\ u \in refreshing
    /\ refreshing' = refreshing \ {u}
    /\ UNCHANGED <<now, poolVars, refresh_cooldowns, snapshot, netLog, statusVars, last>>

\* One iteration of the status loop (every 30 seconds) up to its await:
\* the provider is chosen by the counter and its text is handed to
\* change_presence.
update_status ==
    /\ ~changing
    /\ current_loop < MaxStatusLoops
    /\ presence' = status_messages(current_loop % NumStatusMessages, store, snapshot)
    /\ changing' = TRUE
    /\ UNCHANGED <<now, poolVars, versionVars, current_loop, last>>

\* change_presence returns, the iteration ends and tasks.loop counts it:
\* between two iterations current_loop is the number of the next one.
update_status_done ==
    /\ changing
    /\ changing' = FALSE
    /\ current_loop' = current_loop + 1
    /\ UNCHANGED <<now, poolVars, versionVars, presence, last>>

\* Time passes between two steps of the version behaviours.
VersionTick ==
    /\ now + VersionStep <= StartTime + MaxVersionTicks * VersionStep
    /\ now' = now + VersionStep
    /\ UNCHANGED <<poolVars, versionVars, statusVars, last>>

\* ------------------------------------------------------- specifications
Init ==
    /\ now = StartTime
    /\ store = << >>
    /\ accounts = << >>
    /\ cooldowns = << >>
    /\ next_account = 1
    /\ pc = [u \in Users |-> "idle"]
    /\ acc = [u \in Users |-> NoAccount]
    /\ dm_sent = [u \in Users |-> FALSE]
    /\ delivered = {}
    /\ refresh_cooldowns = << >>
    /\ snapshot = [version |-> NoVersion, date |-> NoDate, fetchedAt |-> 0]
    /\ netLog = << >>
    /\ refreshing = {}
    /\ current_loop = 0
    /\ presence = [text |-> "", n |-> 0]
    /\ changing = FALSE
    /\ last = [cmd |-> "", user |-> "", flip |-> 0, text |-> "", n |-> 0,
               ver |-> NoVersion, date |-> NoDate]

\* The account pool: /addacc, /getacc with every outcome of its awaits,
\* /stock, and the passing of time.
PoolNext ==
    \/ \E u \in Admins, raw \in Accounts \cup {Malformed} : add_account_cmd(u, raw)
    \/ \E u \in Requesters : get_account_cmd(u)
    \/ \E u \in Requesters : dm_ok(u)
    \/ \E u \in Requesters : dm_fail(u)
    \/ \E u \in Requesters : respond_ok(u)
    \/ \E u \in Requesters : respond_fail(u)
    \/ \E u \in Requesters : notify(u)
    \/ \E u \in Requesters : stock_cmd(u)
    \/ PoolTick

PoolSpec == Init /\ [][PoolNext]_vars

\* The version cache: /version and /refreshversion with every outcome of
\* the network call, and the passing of time.
VersionNext ==
    \/ \E u \in Viewers, net \in NetOutcomes : version_cmd(u, net)
    \/ \E u \in Users, net \in NetOutcomes : refresh_version(u, net)
    \/ \E u \in Users, shown \in BOOLEAN : refresh_presence(u, shown)
    \/ \E u \in Users : refresh_unsent(u)
    \/ VersionTick

VersionSpec == Init /\ [][VersionNext]_vars

\* An administrator and a user who is none.
Callers == {"u1", "u3"}

\* The privileged commands issued by administrators and by others.
AdminNext ==
    \/ \E u \in Callers, raw \in Accounts \cup {Malformed} : add_account_cmd(u, raw)
    \/ \E u \in Callers, net \in NetOutcomes : refresh_version(u, net)
    \/ \E u \in Callers, shown \in BOOLEAN : refresh_presence(u, shown)
    \/ \E u \in Callers : refresh_unsent(u)
    \/ VersionTick

AdminSpec == Init /\ [][AdminNext]_vars

\* One requester's checkouts.
Single == {"u3"}

\* The account pool when a write of the accounts file may fail.
FailureNext ==
    \/ \E u \in Admins, raw \in Accounts \cup {Malformed} : add_account_cmd(u, raw)
    \/ \E u \in Admins, raw \in Accounts : add_account_cmd_write_failed(u, raw)
    \/ \E u \in Single : get_account_cmd(u)
    \/ \E u \in Single : get_account_cmd_write_failed(u)
    \/ \E u \in Single : dm_ok(u)
    \/ \E u \in Single : dm_fail(u)
    \/ \E u \in Single : respond_ok(u)
    \/ \E u \in Single : respond_fail(u)
    \/ \E u \in Single, raised \in BOOLEAN : restore_write_failed(u, raised)
    \/ \E u \in Single : notify(u)
    \/ PoolTick

FailureSpec == Init /\ [][FailureNext]_vars

\* One user who is administrator and requester, with both cooldowns.
Both == {"u1"}

\* /getacc and /refreshversion of the same user, on the coarse clock: a
\* step of time ends the refresh window and half of the checkout window.
CooldownNext ==
    \/ \E u \in Both, raw \in Accounts : add_account_cmd(u, raw)
    \/ \E u \in Both : get_account_cmd(u)
    \/ \E u \in Both : dm_ok(u)
    \/ \E u \in Both : dm_fail(u)
    \/ \E u \in Both : respond_ok(u)
    \/ \E u \in Both : respond_fail(u)
    \/ \E u \in Both : notify(u)
    \/ \E u \in Both, net \in NetOutcomes : refresh_version(u, net)
    \/ \E u \in Both, shown \in BOOLEAN : refresh_presence(u, shown)
    \/ \E u \in Both : refresh_unsent(u)
    \/ PoolTick

CooldownSpec == Init /\ [][CooldownNext]_vars

\* The status loop, /addacc changing the stock and /refreshversion changing
\* the version while it runs.
StatusNext ==
    \/ update_status
    \/ update_status_done
    \/ \E u \in Both, raw \in Accounts : add_account_cmd(u, raw)
    \/ \E u \in Both, net \in NetOutcomes : refresh_version(u, net)
    \/ \E u \in Both, shown \in BOOLEAN : refresh_presence(u, shown)
    \/ \E u \in Both : refresh_unsent(u)
    \/ VersionTick

StatusSpec == Init /\ [][StatusNext]_vars

\* Every handler and the status loop, interleaved.
Next ==
    \/ PoolNext
    \/ VersionNext
    \/ update_status
    \/ update_status_done

Spec == Init /\ [][Next]_vars

\* ---------------------------------------------------------------- claims
\* A /getacc handler holds its account from the return of get_account until
\* it has delivered it or put it back.
Holding(u) == pc[u] \in {"dm", "respond"}

\* Some step by the /getacc handler of u called get_account.
Checkout(u) == last' # last /\ last'.cmd = "getacc" /\ last'.user = u

\* C1: whatever the interleaving of /getacc handlers, two handlers that have
\* checked out and not yet finished never hold the same account, and an
\* account a handler holds is no longer in the persisted pool: the pop and
\* the write of the shortened pool are one step.
AtMostOnceCheckout ==
    /\ \A u, v \in Users :
         (u # v /\ Holding(u) /\ Holding(v)) => acc[u] # acc[v]
    /\ \A u \in Users : Holding(u) => acc[u] \notin Range(store)

\* Two handlers hold accounts at the same time.
TwoConcurrentCheckouts ==
    \E u, v \in Users : u # v /\ pc[u] = "dm" /\ pc[v] = "dm" /\ acc[u] # acc[v]

\* C2: an account whose DM to a requester arrived is not in the pool (and so
\* cannot be returned by a later get_account).
DeliveredNotInPool ==
    \A d \in delivered : d[2] \notin Range(store)

\* C3: the handler has run its restore step only if the send of the account
\* to the requester failed.
RestoreOnlyAfterFailedDelivery ==
    \A u \in Users : pc[u] = "notify" => ~dm_sent[u]

\* C4: a get_account call made less than GETACC_COOLDOWN after the
\* requester's last checkout is refused with the cooldown message, whatever
\* the pool holds and also when it is empty, and changes nothing; a call made
\* more than GETACC_COOLDOWN after it returns the front account whenever the
\* pool is not empty.
CooldownGate ==
    [][\A u \in Users :
        (Checkout(u) /\ u \in DOMAIN cooldowns) =>
            /\ now - cooldowns[u] < GETACC_COOLDOWN =>
                 /\ last'.text = "cooldown"
                 /\ pc'[u] = "idle"
                 /\ acc'[u] = NoAccount
                 /\ store' = store
                 /\ cooldowns' = cooldowns
            /\ (now - cooldowns[u] > GETACC_COOLDOWN /\ store # << >>) =>
                 /\ last'.text = "ok"
                 /\ pc'[u] = "dm"
                 /\ acc'[u] = Head(store)]_vars

\* A requester inside the window was refused for the cooldown although the
\* pool is empty.
RefusedOnEmptyPool ==
    /\ last.cmd = "getacc"
    /\ last.text = "cooldown"
    /\ store = << >>
    /\ last.user \in DOMAIN cooldowns
    /\ now - cooldowns[last.user] < GETACC_COOLDOWN
    /\ now > cooldowns[last.user]

\* The requester has no cooldown entry younger than the window.
CooldownSatisfied(u) ==
    u \notin DOMAIN cooldowns \/ now - cooldowns[u] >= GETACC_COOLDOWN

\* C5: the restore step puts the account in front of everything queued, and
\* a get_account call of a requester whose cooldown is satisfied returns the
\* front of a pool that is not empty: the checkout that follows a restore
\* returns the restored account, ahead of every account already queued.
FrontPriority ==
    [][\A u \in Users :
        /\ (Holding(u) /\ pc'[u] = "notify") => store' = <<acc[u]>> \o store
        /\ (Checkout(u) /\ CooldownSatisfied(u) /\ store # << >>) =>
              /\ pc'[u] = "dm"
              /\ acc'[u] = Head(store)
              /\ store' = Tail(store)]_vars

\* An account restored by one handler was handed to the next requester ahead
\* of an account that was queued before it.
RestoredServedFirst ==
    \E u, v \in Users :
        /\ u # v
        /\ pc[u] = "notify"
        /\ pc[v] = "dm"
        /\ acc[v] = acc[u]
        /\ store # << >>

\* C6: after every step the length stock() reports is the length of the
\* persisted pool, and the list in memory is the list persisted.
StockMatchesStore ==
    /\ accounts = store
    /\ stock(store) = Len(accounts)

\* /stock answered right after a restore step, with the restored account
\* counted.
StockAfterRestore ==
    /\ last.cmd = "stock"
    /\ last.n >= 2
    /\ \E u \in Users : pc[u] = "notify" /\ Head(store) = acc[u]

\* The network calls made by /refreshversion handlers of user u.
RefreshCalls(u) ==
    {i \in DOMAIN netLog : netLog[i].kind = "refresh" /\ netLog[i].by = u}

\* C7: two network calls made for force-refreshes of the same requester are
\* at least REFRESH_COOLDOWN apart; the requester's entry is written at every
\* attempt, failed ones too; and every entry stands for one network call.
RefreshOncePerWindow ==
    \A u \in Users :
        /\ \A i, j \in RefreshCalls(u) :
             i < j => netLog[j].at - netLog[i].at >= REFRESH_COOLDOWN
        /\ \A i \in RefreshCalls(u) :
             u \in DOMAIN refresh_cooldowns /\ refresh_cooldowns[u] >= netLog[i].at
        /\ u \in DOMAIN refresh_cooldowns =>
             \E i \in RefreshCalls(u) : netLog[i].at = refresh_cooldowns[u]

\* A requester whose first refresh failed asked again inside the window and
\* was short-circuited.
SecondRefreshShortCircuited ==
    /\ last.cmd = "refreshversion"
    /\ last.text = "cooldown"
    /\ Cardinality(RefreshCalls(last.user)) = 1
    /\ \A i \in RefreshCalls(last.user) : ~netLog[i].ok /\ now > netLog[i].at

\* Some step handled /version.
VersionStepTaken == last' # last /\ last'.cmd = "version"

\* C8: /version handled while the snapshot is younger than CACHE_TTL makes no
\* network call, leaves the snapshot as it is and answers with it.
FreshFetchIsRead ==
    [][(VersionStepTaken /\ IsFresh(snapshot, now)) =>
         /\ netLog' = netLog
         /\ snapshot' = snapshot
         /\ last'.text = "embed"
         /\ last'.ver = snapshot.version
         /\ last'.date = snapshot.date]_vars

\* /version was answered from a snapshot that a force-refresh had fetched
\* earlier and that is still fresh.
AnsweredFromFreshCache ==
    /\ last.cmd = "version"
    /\ last.text = "embed"
    /\ IsFresh(snapshot, now)
    /\ now > snapshot.fetchedAt
    /\ Len(netLog) = 1
    /\ netLog[1].kind = "refresh"

\* C9: /version handled while the snapshot is at least CACHE_TTL old makes
\* exactly one network call; when that call fails the snapshot (version,
\* date, fetchedAt) is unchanged and still stale, and the answer is the old
\* snapshot, not an error.
StaleFailureKeepsSnapshot ==
    [][(VersionStepTaken /\ IsStale(snapshot, now)) =>
         /\ Len(netLog') = Len(netLog) + 1
         /\ ~netLog'[Len(netLog')].ok =>
              /\ snapshot' = snapshot
              /\ IsStale(snapshot', now')
              /\ last'.text = "embed"
              /\ last'.ver = snapshot.version
              /\ last'.date = snapshot.date]_vars

\* /version was answered with a stale snapshot after the network call failed.
AnsweredStaleAfterFailure ==
    /\ last.cmd = "version"
    /\ last.text = "embed"
    /\ IsStale(snapshot, now)
    /\ Len(netLog) >= 2
    /\ netLog[Len(netLog)].kind = "fetch"
    /\ ~netLog[Len(netLog)].ok
    /\ netLog[Len(netLog)].at = now

\* C10: from EMPTY a failed fetch answers "unavailable" and leaves the cache
\* EMPTY, a successful one makes it FRESH with the reported snapshot; once
\* the cache is not EMPTY it never is again and no /version or
\* /refreshversion is answered "unavailable".
EmptyOnlyUntilFirstSuccess ==
    [][/\ (VersionStepTaken /\ IsEmpty(snapshot)) =>
            /\ Len(netLog') = Len(netLog) + 1
            /\ IF netLog'[Len(netLog')].ok
               THEN /\ IsFresh(snapshot', now')
                    /\ snapshot'.fetchedAt = now
                    /\ last'.text = "embed"
                    /\ last'.ver = snapshot'.version
               ELSE /\ IsEmpty(snapshot')
                    /\ last'.text = "unavailable"
       /\ ~IsEmpty(snapshot) =>
            /\ ~IsEmpty(snapshot')
            /\ last' # last => last'.text # "unavailable"]_vars

\* A failed fetch on the empty cache was followed by a successful one.
FreshAfterEmptyFailure ==
    /\ Len(netLog) = 2
    /\ netLog[1].kind = "fetch" /\ ~netLog[1].ok
    /\ netLog[2].kind = "fetch" /\ netLog[2].ok
    /\ IsFresh(snapshot, now)
    /\ last.cmd = "version"
    /\ last.text = "embed"
    /\ last.date = NoDate

\* Some step handled the command cmd of user u.
Handled(cmd, u) == last' # last /\ last'.cmd = cmd /\ last'.user = u

\* C11: /addacc and /refreshversion of a user who is no administrator are
\* answered "Admin only" and change neither the account pool, nor the refresh
\* cooldown entries, nor the version snapshot, and make no network call.
PrivilegedOnlyForAdmins ==
    [][\A u \in Users \ Admins :
        (Handled("addacc", u) \/ Handled("refreshversion", u)) =>
            /\ last'.text = "Admin only"
            /\ store' = store
            /\ accounts' = accounts
            /\ refresh_cooldowns' = refresh_cooldowns
            /\ netLog' = netLog
            /\ snapshot' = snapshot
            /\ refreshing' = refreshing]_vars

\* A user who is no administrator was turned away while the pool and the
\* snapshot hold what administrators put there.
NonAdminTurnedAway ==
    /\ last.user \notin Admins
    /\ last.cmd \in {"addacc", "refreshversion"}
    /\ last.text = "Admin only"
    /\ store # << >>
    /\ netLog # << >>

\* C12: a get_account call on an empty pool returns no account and changes
\* nothing: the pool stays empty, stock() stays 0 and the requester's cooldown
\* entry is neither created nor refreshed.  For a requester outside the
\* cooldown window the message is "no stock" (inside it the cooldown refusal
\* comes first), and the same requester is served at once from a pool that
\* has received an account.
EmptyPoolRefusal ==
    [][\A u \in Users :
        (Checkout(u) /\ store = << >>) =>
            /\ acc'[u] = NoAccount
            /\ pc'[u] = "idle"
            /\ store' = << >>
            /\ stock(store') = 0
            /\ cooldowns' = cooldowns
            /\ CooldownSatisfied(u) =>
                 /\ last'.text = "no stock"
                 /\ \A a \in Accounts :
                      get_account(u, <<a>>, cooldowns', now').acc = a]_vars

\* A requester whose window has passed was refused for lack of stock and its
\* old cooldown entry stands.
RefusedForNoStock ==
    /\ last.cmd = "getacc"
    /\ last.text = "no stock"
    /\ store = << >>
    /\ last.user \in DOMAIN cooldowns
    /\ now - cooldowns[last.user] >= GETACC_COOLDOWN

\* The account strings added so far.
Added == 1..(next_account - 1)

NoDuplicates(seq) == \A i, j \in DOMAIN seq : i # j => seq[i] # seq[j]

\* The account is in the pool, in the hands of a running handler, or has been
\* sent to somebody.
Accounted(a) ==
    \/ a \in Range(store)
    \/ \E u \in Users : Holding(u) /\ acc[u] = a
    \/ \E u \in Users : <<u, a>> \in delivered

\* C13: under every interleaving of the handlers each change of the persisted
\* pool is one whole add, checkout or restore applied to the pool as it was
\* persisted at that moment, so the pool is the result of a serial order of
\* the operations: no added or restored account is lost and none is in the
\* pool twice.
SerialPoolSteps ==
    [][/\ store' # store =>
            \/ \E u \in Users, a \in Accounts :
                 Handled("addacc", u) /\ store' = Append(store, a)
            \/ \E u \in Users :
                 Checkout(u) /\ acc'[u] = Head(store) /\ store' = Tail(store)
            \/ \E u \in Users :
                 Holding(u) /\ pc'[u] = "notify" /\ store' = <<acc[u]>> \o store
       /\ NoDuplicates(store')
       /\ (\A a \in Added : Accounted(a))']_vars

\* A restore ran while another handler was between its checkout and its DM.
RestoreAmidCheckout ==
    \E u, v \in Users :
        /\ u # v
        /\ pc[u] = "notify"
        /\ pc[v] = "dm"
        /\ acc[u] # acc[v]
        /\ store # << >>
        /\ Head(store) = acc[u]

\* C14: the restore step leaves every cooldown entry as it is, the
\* requester's own included: a get_account the requester makes inside the
\* window of that checkout is still refused, and a get_account of any other
\* requester whose cooldown is satisfied returns the restored account.
RestoreKeepsCooldown ==
    [][\A u \in Users :
        (Holding(u) /\ pc'[u] = "notify") =>
            /\ cooldowns' = cooldowns
            /\ u \in DOMAIN cooldowns'
            /\ now - cooldowns'[u] < GETACC_COOLDOWN =>
                 get_account(u, store', cooldowns', now').msg = "cooldown"
            /\ \A v \in Users \ {u} :
                 CooldownSatisfied(v) =>
                     get_account(v, store', cooldowns', now').acc = acc[u]]_vars

\* The only account added went to u, whose delivery failed; it was restored
\* and checked out by v, and u, asking again inside its window, was refused.
RefusedAfterFailedDelivery ==
    \E u, v \in Users :
        /\ u # v
        /\ next_account = 2
        /\ delivered = {}
        /\ pc[u] = "idle"
        /\ pc[v] = "dm"
        /\ u \in DOMAIN cooldowns
        /\ now - cooldowns[u] < GETACC_COOLDOWN
        /\ last.cmd = "getacc"
        /\ last.user = u
        /\ last.text = "cooldown"

ForcedRefreshAndMonotoneFetchedAt ==
    [][/\ \A u \in Admins :
            (Handled("refreshversion", u)
               /\ now - Get(refresh_cooldowns, u, 0) >= REFRESH_COOLDOWN) =>
                /\ Len(netLog') = Len(netLog) + 1
                /\ netLog'[Len(netLog')].kind = "refresh"
                /\ netLog'[Len(netLog')].at = now
                /\ IF netLog'[Len(netLog')].ok
                   THEN /\ snapshot'.fetchedAt = now
                        /\ ~IsEmpty(snapshot')
                        /\ last'.text = "embed"
                        /\ last'.ver = snapshot'.version
                   ELSE snapshot' = snapshot
       /\ snapshot'.fetchedAt >= snapshot.fetchedAt
       /\ snapshot' # snapshot =>
            /\ Len(netLog') = Len(netLog) + 1
            /\ netLog'[Len(netLog')].ok
            /\ snapshot'.fetchedAt = now]_vars

\* A force-refresh made while the snapshot was fresh called the network,
\* failed, and the snapshot is still the earlier one.
ForcedWhileFresh ==
    /\ Len(netLog) = 2
    /\ netLog[1].ok
    /\ netLog[2].kind = "refresh"
    /\ ~netLog[2].ok
    /\ netLog[2].at - netLog[1].at < CACHE_TTL
    /\ snapshot.fetchedAt = netLog[1].at
    /\ last.cmd = "refreshversion"
    /\ last.text = "embed"

\* C17: the checkout cooldown and the refresh cooldown are independent.  The
\* checkout entries change only in a /getacc step and the refresh entries
\* only in a /refreshversion step, neither step touches the other map, and
\* each command is refused for its own window alone: /getacc exactly inside
\* GETACC_COOLDOWN of the user's checkout entry, /refreshversion exactly
\* inside REFRESH_COOLDOWN of the user's refresh entry.
CooldownsIndependent ==
    [][/\ cooldowns' # cooldowns =>
            /\ \E u \in Users : Handled("getacc", u)
            /\ refresh_cooldowns' = refresh_cooldowns
       /\ refresh_cooldowns' # refresh_cooldowns =>
            /\ \E u \in Users : Handled("refreshversion", u)
            /\ cooldowns' = cooldowns
       /\ \A u \in Users : Handled("getacc", u) =>
            (last'.text = "cooldown" <=>
                (u \in DOMAIN cooldowns /\ now - cooldowns[u] < GETACC_COOLDOWN))
       /\ \A u \in Admins : Handled("refreshversion", u) =>
            (last'.text = "cooldown" <=>
                now - Get(refresh_cooldowns, u, 0) < REFRESH_COOLDOWN)]_vars

\* A user inside the checkout window has just been let through by
\* /refreshversion.
RefreshInsideCheckoutWindow ==
    \E u \in Users :
        /\ last.cmd = "refreshversion"
        /\ last.user = u
        /\ last.text # "cooldown"
        /\ u \in DOMAIN refresh_cooldowns
        /\ refresh_cooldowns[u] = now
        /\ u \in DOMAIN cooldowns
        /\ now - cooldowns[u] < GETACC_COOLDOWN

\* C18: when a write of the accounts file fails during add, checkout or
\* restore, no account is lost: every account that was added is in the
\* persisted pool, in the hands of a handler that is still to deliver or
\* restore it, or delivered.
NoAccountLostByWriteFailure ==
    \A a \in Added : Accounted(a)

\* How often the account is in the persisted pool, and who was sent it.
TimesInPool(a) == Cardinality({i \in DOMAIN store : store[i] = a})
Recipients(a) == {u \in Users : <<u, a>> \in delivered}

\* C19: conservation of accounts.  Once every handler has finished, each
\* account that was added is in exactly one place: in the pool exactly once
\* and sent to nobody, or sent to exactly one requester and not in the pool.
Conservation ==
    (\A u \in Users : pc[u] = "idle") =>
        \A a \in Added :
            \/ TimesInPool(a) = 1 /\ Recipients(a) = {}
            \/ TimesInPool(a) = 0 /\ Cardinality(Recipients(a)) = 1

\* The text of provider i of the fixed list, written out.
ProviderText(i) ==
    CASE i = 0 -> [text |-> "stock", n |-> Len(store)]
      [] i = 1 -> [text |-> "/getacc for free accounts", n |-> 0]
      [] i = 2 -> [text |-> "/stock to check balance", n |-> 0]
      [] i = 3 -> [text |-> "version", n |-> snapshot.version]

\* C20: the status rotation is a function of the tick counter alone.  The
\* iteration with counter n displays the text of provider n mod 4 of the list
\* (stock text, two fixed strings, version text) and then the counter goes up
\* by one, so four consecutive iterations show the four providers once each;
\* outside the iterations the displayed text changes only by the update that
\* follows a successful /refreshversion, to the version text, and only while
\* the counter selects the version provider.
StatusRotation ==
    [][/\ (changing' /\ ~changing) =>
            /\ presence' = ProviderText(current_loop % 4)
            /\ current_loop' = current_loop
       /\ (changing /\ ~changing') =>
            /\ current_loop' = current_loop + 1
            /\ presence' = presence
       /\ (changing' = changing) =>
            /\ current_loop' = current_loop
            /\ presence' # presence =>
                /\ current_loop % 4 = 3
                /\ presence' = ProviderText(3)
                /\ snapshot.version # NoVersion
                /\ \E u \in Users : u \in refreshing /\ u \notin refreshing']_vars

\* Between two iterations, with the counter selecting the version provider,
\* a successful /refreshversion has replaced the displayed text by the new
\* version text.
ImmediateVersionStatus ==
    /\ current_loop % 4 = 3
    /\ ~changing
    /\ presence = [text |-> "version", n |-> snapshot.version]
    /\ snapshot.version # NoVersion
    /\ last.cmd = "refreshversion"
    /\ last.text = "embed"
    /\ refreshing = {}

====
